---- MODULE Spec2Model ----
(***************************************************************************)
(* Model of the Vastu report/chat relay server (src/server.js).  The file   *)
(* holds two copies of the server; the model follows the second one        *)
(* (lines 210-465), whose report handler calls generateCoreAssessment      *)
(* before it builds the final query.                                       *)
(*                                                                         *)
(* Strings are modelled as sequences of tokens: a template literal is the  *)
(* sequence of its literal pieces and interpolated values, string          *)
(* concatenation is \o and the empty string is << >>.  Headings are        *)
(* numbers of quarter degrees (exactly representable as JS doubles), so    *)
(* that Number.prototype.toFixed(1) can be computed exactly.               *)
(***************************************************************************)
EXTENDS Integers, Sequences, FiniteSets, TLC

\* ---------------------------------------------------------------- bounds
MaxFrames == 3
\* frames per report body under the specification with fairness
LiveFrames == 1
NumReqs == 2

Reqs == 1 .. NumReqs

\* ------------------------------------------------------- input domains
Images == {"imgA", "imgB"}
Zones == {"North", "South"}
\* 10.5 degrees and 90.25 degrees, in quarter degrees
Headings == {42, 361}
\* a heading that is not a JS number (a string, null, undefined)
NonNumericHeadings == {-1}

Frames == [image : Images, heading : Headings \cup NonNumericHeadings, zone : Zones]

RECURSIVE SeqsUpTo(_, _)
SeqsUpTo(S, n) ==
  IF n = 0 THEN {<< >>}
  ELSE LET shorter == SeqsUpTo(S, n - 1)
       IN shorter \cup {Append(s, x) : s \in {t \in shorter : Len(t) = n - 1}, x \in S}

Contexts ==
  { [currentRoomTag |-> "Kitchen", roomLocationInHouse |-> "North-East",
     floorNumber |-> "1", holisticIssues |-> "health", holisticSurroundings |-> "road"],
    [currentRoomTag |-> "Bedroom", roomLocationInHouse |-> "",
     floorNumber |-> "", holisticIssues |-> "sleep", holisticSurroundings |-> "park"] }

\* scanData of a request body; hasScanData = FALSE is a body without it
ScanDatas(frameSeqs) ==
  { [hasScanData |-> TRUE, capturedFrames |-> fs, context |-> c] :
      fs \in frameSeqs, c \in Contexts }
  \cup { [hasScanData |-> FALSE, capturedFrames |-> << >>,
          context |-> CHOOSE c \in Contexts : c.currentRoomTag = "Kitchen"] }

ChatBodies ==
  { [chatHistory |-> h, chatContextSummary |-> "summary of the report"] :
      h \in { <<"user: hi">>, <<"user: hi", "model: hello", "user: why?">> } }

\* what the generation endpoint can answer to one call
UpstreamTexts == { << >>, <<"- defect one">>, <<"**Title**", "- remedy">> }
UpstreamReplies ==
  { [ok |-> TRUE, status |-> 200, shape |-> "text", text |-> t, errorText |-> ""] :
      t \in UpstreamTexts }
  \cup { [ok |-> TRUE, status |-> 200, shape |-> s, text |-> << >>, errorText |-> ""] :
      s \in {"noCandidates", "noParts"} }
  \cup { [ok |-> FALSE, status |-> st, shape |-> "error", text |-> << >>, errorText |-> "quota exceeded"] :
      st \in {429, 503} }

\* ------------------------------------------------------------- helpers
\* x.toFixed(1) for x = num/den degrees, den = 0 standing for NaN (0/0)
ToFixed1(num, den) ==
  IF den = 0 THEN "NaN"
  ELSE LET n == (20 * num + den) \div (2 * den)
       IN ToString(n \div 10) \o "." \o ToString(n % 10)

\* a || b on strings: the empty string and undefined are falsy
OrElse(defined, s, fallback) == IF defined /\ s # << >> THEN s ELSE fallback

\* result.candidates?.[0]?.content?.parts?.[0]?.text
TextDefined(reply) == reply.shape = "text"

RECURSIVE Join(_, _)
Join(seq, sep) ==
  IF seq = << >> THEN << >>
  ELSE IF Len(seq) = 1 THEN <<seq[1]>>
  ELSE <<seq[1], sep>> \o Join(Tail(seq), sep)

\* no Set: every element kept
SetOrderNoDedup(seq, acc) == acc \o seq

RECURSIVE SetOrder(_, _)
\* [...new Set(seq)]: insertion order, an element already present is skipped
SetOrder(seq, acc) ==
  IF seq = << >> THEN acc
  ELSE SetOrder(Tail(seq),
                IF \E i \in 1 .. Len(acc) : acc[i] = seq[1] THEN acc ELSE Append(acc, seq[1]))

RECURSIVE SumHeadings(_)
SumHeadings(frames) ==
  IF frames = << >> THEN 0 ELSE frames[1].heading + SumHeadings(Tail(frames))

\* ----------------------------------------------------- prompt building
\* server.js:367-368, one iteration of the forEach (index is index + 1)
ImagePart(frame) == [inlineData |-> [mimeType |-> "image/jpeg", data |-> frame.image]]
\* the forEach index used without the + 1
MarkerTextZeroBased(index, frame) ==
  << "--- Visual Data Segment ", ToString(index - 1), " Captured at Heading ",
     ToFixed1(frame.heading, 4), " degrees (Vastu Zone: ", frame.zone, ") ---" >>

MarkerText(index, frame) ==
  << "--- Visual Data Segment ", ToString(index), " Captured at Heading ",
     ToFixed1(frame.heading, 4), " degrees (Vastu Zone: ", frame.zone, ") ---" >>

\* frame.heading.toFixed throws a TypeError when heading is not a number
HeadingThrows(frames) == \E i \in 1 .. Len(frames) : frames[i].heading \in NonNumericHeadings

RECURSIVE BuildParts(_, _)
BuildParts(frames, done) ==
  IF done = Len(frames) THEN << >>
  ELSE << ImagePart(frames[done + 1]), [text |-> MarkerText(done + 1, frames[done + 1])] >>
       \o BuildParts(frames, done + 1)

CoreQuery(scanData, parts) ==
  << "CRITICAL INSTRUCTION: You are a Vastu Analyst AI. Analyze the provided ",
     ToString(Len(parts) - 1), " visual segments and the following room context: Room: ",
     scanData.context.currentRoomTag, ", Location: ", scanData.context.roomLocationInHouse,
     ", Concerns: ", scanData.context.holisticIssues,
     ". CRITICAL TASK: ... **Core Vastu Assessment (Defects Found)** ... Do NOT include remedies." >>

SafetySettings ==
  << [category |-> "HARM_CATEGORY_HARASSMENT", threshold |-> "BLOCK_NONE"],
     [category |-> "HARM_CATEGORY_HATE_SPEECH", threshold |-> "BLOCK_NONE"],
     [category |-> "HARM_CATEGORY_SEXUALLY_EXPLICIT", threshold |-> "BLOCK_NONE"],
     [category |-> "HARM_CATEGORY_DANGEROUS_CONTENT", threshold |-> "BLOCK_NONE"] >>

\* the part list generateCoreAssessment sends: [...parts, { text: query }]
CoreAssessmentParts(parts, query) == parts \o << [text |-> query] >>

\* parts.push({ text: query }) instead of the spread
PartsAfterCoreAssessmentPushed(parts, query) == Append(parts, [text |-> query])

\* the caller's part list after generateCoreAssessment: the spread copies it
PartsAfterCoreAssessment(parts, query) == parts

CoreFallback ==
  << "**Core Vastu Assessment (Defects Found)**\n- Assessment failed to generate. Please rescan." >>
ChatFallback == << "Sorry, I couldn't process that query." >>
Separator == "\n\n---\n\n"

\* server.js:268
CoreAssessmentText(reply) == OrElse(TextDefined(reply), reply.text, CoreFallback)
\* the chat path's fallback used on the report path
ReportAiResponseChatFallback(reply) == OrElse(TextDefined(reply), reply.text, ChatFallback)

\* server.js:405
ReportAiResponse(reply) == OrElse(TextDefined(reply), reply.text, << >>)
\* the report path's empty fallback used on the chat path
ChatAiResponseEmpty(reply) == OrElse(TextDefined(reply), reply.text, << >>)

\* server.js:453
ChatAiResponse(reply) == OrElse(TextDefined(reply), reply.text, ChatFallback)
\* the two texts combined in the wrong order
FinalReportSwapped(coreAssessment, aiResponse) == aiResponse \o <<Separator>> \o coreAssessment

\* server.js:408
FinalReport(coreAssessment, aiResponse) == coreAssessment \o <<Separator>> \o aiResponse

\* server.js:282
VastuZonesObserved(frames) ==
  Join(SetOrder([i \in 1 .. Len(frames) |-> frames[i].zone], << >>), ", ")

\* server.js:281 and 295: the mean of the headings, formatted to one decimal.
\* For up to four frames a mean that lies exactly between two tenths is a
\* dyadic fraction, hence exact as a JS double, and toFixed rounds it up as
\* here; no frames give 0 / 0 = NaN.
AvgHeadingText(frames) == ToFixed1(SumHeadings(frames), 4 * Len(frames))

\* server.js:285-296
SharedContext(scanData, coreAssessment) ==
  << "CORE VASTU FINDINGS (MUST BE USED AS THE BASIS FOR ALL REMEDIES): " >>
  \o coreAssessment
  \o << " CONTEXT FOR THIS REPORT: - Area Scanned: ", scanData.context.currentRoomTag,
        " - Location (C-Point): The ", scanData.context.currentRoomTag, " is in the ",
        IF scanData.context.roomLocationInHouse # ""
          THEN scanData.context.roomLocationInHouse ELSE "UNKNOWN",
        " zone of the house. - Floor: ",
        IF scanData.context.floorNumber # "" THEN scanData.context.floorNumber ELSE "N/A",
        " - User's Concerns: ", scanData.context.holisticIssues,
        " - Property Surroundings: ", scanData.context.holisticSurroundings,
        " - Scan Data: Average Heading: ", AvgHeadingText(scanData.capturedFrames),
        " degrees. Zones Covered: " >>
  \o VastuZonesObserved(scanData.capturedFrames)
  \o << "." >>

\* server.js:272-353
getAiQuery(scanData, isDeepAnalysis, coreAssessment) ==
  IF isDeepAnalysis
  THEN << "CRITICAL INSTRUCTION: You are a Master Vastu Shastra Analyst AI, specializing in structural and permanent solutions. " >>
       \o SharedContext(scanData, coreAssessment)
       \o << " CRITICAL TASK: Do NOT write a full report. ... **Expert Analysis (Structural Recommendations)** ... **Minor Structural Recommendations** ... **Major Structural Recommendations** ..." >>
  ELSE << "CRITICAL INSTRUCTION: You are a Master Vastu Shastra Analyst AI, specializing in non-structural, actionable remedies. " >>
       \o SharedContext(scanData, coreAssessment)
       \o << " The report must be structured into FIVE consecutive sections. ... **I. Executive Summary (Layman's Terms)** ... (",
             scanData.context.currentRoomTag, ") based on its location (",
             scanData.context.roomLocationInHouse,
             "). **II. Directional Data and Environmental Assessment** ... **III. Analysis of Vastu Compliance** ... **IV. Remedial Recommendations (Advanced)** ... **V. Vastu Tips & Remedies (Actionable Advice)** ..." >>

\* server.js:427-430
ChatSystemPrompt(chatContextSummary) ==
  << "You are a helpful and friendly Vastu Shastra AI assistant. ... --- REPORT CONTEXT START --- ",
     chatContextSummary, " --- REPORT CONTEXT END --- ..." >>

\* the status check left out
ResponseOkAlways(reply) == TRUE

\* response.ok
ResponseOk(reply) == reply.ok

\* the response body left out of the message
UpstreamErrorNoBody(prefix, reply) == << prefix, ToString(reply.status) >>

UpstreamError(prefix, reply) == << prefix, ToString(reply.status), " - ", reply.errorText >>

ReportPayload(parts) ==
  [contents |-> << [role |-> "user", parts |-> parts] >>, safetySettings |-> SafetySettings]
ChatPayload(chatBody) ==
  [contents |-> chatBody.chatHistory,
   systemInstruction |-> [parts |-> << [text |-> ChatSystemPrompt(chatBody.chatContextSummary)] >>]]

\* --------------------------------------------------------------- state
VARIABLES
  GEMINI_API_KEY,  \* the credential read at start-up; "" when it is absent
  pc,              \* per request: where its handler is
  req,             \* per request: endpoint and body received
  parts,           \* per request: the handler's local part list
  coreAssessment,  \* per request: the handler's local Stage 1 result
  outbound,        \* per request: the generation calls issued, in order
  replies,         \* per request: the upstream replies received, in order
  res              \* per request: the HTTP responses sent, in order

vars == <<GEMINI_API_KEY, pc, req, parts, coreAssessment, outbound, replies, res>>

NoRequest == [endpoint |-> "none"]

Init ==
  /\ GEMINI_API_KEY \in {"", "secret-key"}
  /\ pc = [r \in Reqs |-> "idle"]
  /\ req = [r \in Reqs |-> NoRequest]
  /\ parts = [r \in Reqs |-> << >>]
  /\ coreAssessment = [r \in Reqs |-> << >>]
  /\ outbound = [r \in Reqs |-> << >>]
  /\ replies = [r \in Reqs |-> << >>]
  /\ res = [r \in Reqs |-> << >>]

\* the credential check left out
KeyConfiguredAlways == TRUE

\* !GEMINI_API_KEY is false
KeyConfigured == GEMINI_API_KEY # ""

\* one module-level variable instead of a local of each invocation
HandlerLocalsShared(r) == 1

\* let parts (server.js:364) and const coreAssessment (372) are locals of the
\* handler: every invocation r has its own
HandlerLocals(r) == r

\* res.status(s).json(j), or res.json(j) with the default status 200
Respond(r, status, json) ==
  /\ res' = [res EXCEPT ![r] = Append(@, [status |-> status, json |-> json])]
  /\ pc' = [pc EXCEPT ![r] = "done"]

\* an error thrown outside the try block: the handler ends without a response
Uncaught(r, message) ==
  /\ pc' = [pc EXCEPT ![r] = "done"]
  /\ UNCHANGED res

\* catch (error) { res.status(500).json({ error: error.message }) }
Catch(r, message) == Respond(r, 500, [error |-> message])

Fetch(r, stage, payload) ==
  outbound' = [outbound EXCEPT ![r] = Append(@, [stage |-> stage, payload |-> payload])]

\* ------------------------------------------------------------- actions
\* POST /api/generateReport up to its first await: the credential check,
\* the part list, and generateCoreAssessment up to its fetch
ReportHandler(r, isDeep, sd) ==
  /\ pc[r] = "idle"
  /\ LET built == BuildParts(sd.capturedFrames, 0)
         query == CoreQuery(sd, built)
     IN   /\ req' = [req EXCEPT ![r] = [endpoint |-> "generateReport",
                                        isDeepAnalysis |-> isDeep, scanData |-> sd]]
          /\ IF ~KeyConfigured
             THEN /\ Respond(r, 500, [error |-> <<"Server API Key is not configured.">>])
                  /\ UNCHANGED <<parts, outbound>>
             ELSE IF ~sd.hasScanData
             THEN /\ Catch(r, <<"Cannot read properties of undefined (reading 'capturedFrames')">>)
                  /\ UNCHANGED <<parts, outbound>>
             ELSE IF HeadingThrows(sd.capturedFrames)
             THEN /\ Catch(r, <<"frame.heading.toFixed is not a function">>)
                  /\ UNCHANGED <<parts, outbound>>
             ELSE IF ~KeyConfigured
             THEN /\ Catch(r, <<"Server API Key is not configured for core assessment.">>)
                  /\ UNCHANGED <<parts, outbound>>
             ELSE /\ Fetch(r, "core", ReportPayload(CoreAssessmentParts(built, query)))
                  /\ parts' = [parts EXCEPT ![HandlerLocals(r)] = PartsAfterCoreAssessment(built, query)]
                  /\ pc' = [pc EXCEPT ![r] = "await1"]
                  /\ UNCHANGED res
  /\ UNCHANGED <<GEMINI_API_KEY, coreAssessment, replies>>

\* a report request with any body of up to maxFrames frames
ReportRequest(r, maxFrames) ==
  /\ pc[r] = "idle"
  /\ \E isDeep \in BOOLEAN, sd \in ScanDatas(SeqsUpTo(Frames, maxFrames)) :
       ReportHandler(r, isDeep, sd)

\* the Stage 1 fetch resolves: the rest of generateCoreAssessment, then the
\* handler up to its own fetch
Stage1Reply(r) ==
  /\ pc[r] = "await1"
  /\ \E reply \in UpstreamReplies :
       /\ replies' = [replies EXCEPT ![r] = Append(@, reply)]
       /\ IF ~ResponseOk(reply)
          THEN /\ Catch(r, UpstreamError("Google API Error (Core Assessment): ", reply))
               /\ UNCHANGED <<parts, coreAssessment, outbound>>
          ELSE LET core == CoreAssessmentText(reply)
                   userQuery == getAiQuery(req[r].scanData, req[r].isDeepAnalysis, core)
                   pushed == Append(parts[HandlerLocals(r)], [text |-> userQuery])
               IN /\ coreAssessment' = [coreAssessment EXCEPT ![HandlerLocals(r)] = core]
                  /\ parts' = [parts EXCEPT ![HandlerLocals(r)] = pushed]
                  /\ Fetch(r, "final", ReportPayload(pushed))
                  /\ pc' = [pc EXCEPT ![r] = "await2"]
                  /\ UNCHANGED res
  /\ UNCHANGED <<GEMINI_API_KEY, req>>

\* the Stage 2 fetch resolves: the report is combined and sent
Stage2Reply(r) ==
  /\ pc[r] = "await2"
  /\ \E reply \in UpstreamReplies :
       /\ replies' = [replies EXCEPT ![r] = Append(@, reply)]
       /\ IF ~ResponseOk(reply)
          THEN Catch(r, UpstreamError("Google API Error: ", reply))
          ELSE Respond(r, 200, [text |-> FinalReport(coreAssessment[HandlerLocals(r)], ReportAiResponse(reply))])
  /\ UNCHANGED <<GEMINI_API_KEY, req, parts, coreAssessment, outbound>>

\* POST /api/handleChat up to its fetch
ChatRequest(r) ==
  /\ pc[r] = "idle"
  /\ \E b \in ChatBodies :
       /\ req' = [req EXCEPT ![r] = [endpoint |-> "handleChat", body |-> b]]
       /\ IF ~KeyConfigured
          THEN /\ Respond(r, 500, [error |-> <<"Server API Key is not configured.">>])
               /\ UNCHANGED outbound
          ELSE /\ Fetch(r, "chat", ChatPayload(b))
               /\ pc' = [pc EXCEPT ![r] = "awaitChat"]
               /\ UNCHANGED res
  /\ UNCHANGED <<GEMINI_API_KEY, parts, coreAssessment, replies>>

\* the chat fetch resolves
ChatReply(r) ==
  /\ pc[r] = "awaitChat"
  /\ \E reply \in UpstreamReplies :
       /\ replies' = [replies EXCEPT ![r] = Append(@, reply)]
       /\ IF ~ResponseOk(reply)
          THEN Catch(r, UpstreamError("Google API Error: ", reply))
          ELSE Respond(r, 200, [text |-> ChatAiResponse(reply)])
  /\ UNCHANGED <<GEMINI_API_KEY, req, parts, coreAssessment, outbound>>

\* fetch rejects (network failure) or response.json() rejects (a body that
\* is not JSON): the handler's catch sends the error
TransportFailure(r) ==
  /\ pc[r] \in {"await1", "await2", "awaitChat"}
  /\ \E message \in {"request to generativelanguage.googleapis.com failed",
                     "invalid json response body"} :
       Catch(r, <<message>>)
  /\ UNCHANGED <<GEMINI_API_KEY, req, parts, coreAssessment, outbound, replies>>

\* one request in flight, over the whole input domain; the other request
\* slots stay idle under this specification
Single == {1}

Next ==
  \E r \in Single :
    \/ ReportRequest(r, MaxFrames)
    \/ Stage1Reply(r)
    \/ Stage2Reply(r)
    \/ ChatRequest(r)
    \/ ChatReply(r)
    \/ TransportFailure(r)

Spec == Init /\ [][Next]_vars

\* the report body of request r when the requests run concurrently: two
\* bodies that differ in every frame field, in the context and in the mode,
\* so that data of one request showing up in another is visible
ConcReportBody(r) ==
  IF r % 2 = 1
  THEN
    [isDeepAnalysis |-> FALSE,
     scanData |-> [hasScanData |-> TRUE,
                   capturedFrames |-> << [image |-> "imgA", heading |-> 42, zone |-> "North"] >>,
                   context |-> CHOOSE c \in Contexts : c.currentRoomTag = "Kitchen"]]
  ELSE
    [isDeepAnalysis |-> TRUE,
     scanData |-> [hasScanData |-> TRUE,
                   capturedFrames |-> << [image |-> "imgB", heading |-> 361, zone |-> "South"] >>,
                   context |-> CHOOSE c \in Contexts : c.currentRoomTag = "Bedroom"]]

ConcReportRequest(r) ==
  ReportHandler(r, ConcReportBody(r).isDeepAnalysis, ConcReportBody(r).scanData)

\* every request slot may be in flight: the hosting runtime interleaves the
\* handlers at their awaits
NextConc ==
  \E r \in Reqs :
    \/ ConcReportRequest(r)
    \/ Stage1Reply(r)
    \/ Stage2Reply(r)
    \/ ChatRequest(r)
    \/ ChatReply(r)
    \/ TransportFailure(r)

SpecConc == Init /\ [][NextConc]_vars

\* ------------------------------------------------- notions of the claims
IsReport(r) == req[r].endpoint = "generateReport"
IsChat(r) == req[r].endpoint = "handleChat"
Ended(r) == pc[r] = "done"

\* the request was answered once, with this status and this kind of body
Answered(r, status, field) ==
  /\ Len(res[r]) = 1
  /\ res[r][1].status = status
  /\ DOMAIN res[r][1].json = {field}

\* a success reply without candidates, without parts, or with an empty text
LacksText(reply) == reply.ok /\ (reply.shape # "text" \/ reply.text = << >>)
HasText(reply) == reply.ok /\ reply.shape = "text" /\ reply.text # << >>

Contains(seq, x) == \E i \in 1 .. Len(seq) : seq[i] = x
Embeds(seq, sub) ==
  \E k \in 0 .. Len(seq) - Len(sub) : SubSeq(seq, k + 1, k + Len(sub)) = sub

SentParts(r, k) == outbound[r][k].payload.contents[1].parts
FramesOf(r) == req[r].scanData.capturedFrames

\* C1: with the credential absent, a request to either endpoint is answered
\* with HTTP 500 and an error body and issues no outbound generation call.
C1_NoKeyNoCall ==
  \A r \in Reqs :
    (GEMINI_API_KEY = "" /\ (IsReport(r) \/ IsChat(r)))
      => /\ Ended(r)
         /\ Answered(r, 500, "error")
         /\ outbound[r] = << >>

C1_Witness ==
  \E r \in Reqs :
    /\ GEMINI_API_KEY = ""
    /\ IsReport(r)
    /\ req[r].scanData.hasScanData
    /\ Len(FramesOf(r)) = 2
    /\ ~HeadingThrows(FramesOf(r))
    /\ Ended(r)

\* C2: when the Stage 1 call of a report request returns a non-success
\* status, no Stage 2 call is issued and the request ends with HTTP 500.
C2_Stage1FailureStops ==
  \A r \in Reqs :
    (IsReport(r) /\ Len(replies[r]) >= 1 /\ ~replies[r][1].ok)
      => /\ Len(outbound[r]) = 1
         /\ outbound[r][1].stage = "core"
         /\ Ended(r)
         /\ Answered(r, 500, "error")

C2_Witness ==
  \E r \in Reqs :
    /\ IsReport(r)
    /\ Len(replies[r]) = 1
    /\ ~replies[r][1].ok
    /\ Ended(r)

\* C3 as stated: when both calls succeed and return texts C and F, the
\* response is HTTP 200 with text C, the separator, F.
C3_Original ==
  \A r \in Reqs :
    (IsReport(r) /\ Ended(r) /\ Len(replies[r]) = 2
       /\ replies[r][1].ok /\ replies[r][1].shape = "text"
       /\ replies[r][2].ok /\ replies[r][2].shape = "text")
      => /\ Answered(r, 200, "text")
         /\ res[r][1].json.text
              = replies[r][1].text \o <<Separator>> \o replies[r][2].text

\* C3 amended: the same, for a Stage 1 text C that is not empty.
C3_RoundTrip ==
  \A r \in Reqs :
    (IsReport(r) /\ Ended(r) /\ Len(replies[r]) = 2
       /\ HasText(replies[r][1])
       /\ replies[r][2].ok /\ replies[r][2].shape = "text")
      => /\ Answered(r, 200, "text")
         /\ res[r][1].json.text
              = replies[r][1].text \o <<Separator>> \o replies[r][2].text

C3_Witness ==
  \E r \in Reqs :
    /\ IsReport(r) /\ Ended(r) /\ Len(replies[r]) = 2
    /\ HasText(replies[r][1]) /\ HasText(replies[r][2])
    /\ Len(replies[r][2].text) = 2
    /\ replies[r][1].text # replies[r][2].text
    /\ Len(res[r]) = 1

\* C4 as stated: a 200 response whose text is the CoreAssessment without
\* any Stage 2 output is never sent.
C4_Original ==
  \A r \in Reqs :
    (IsReport(r) /\ Len(res[r]) >= 1 /\ res[r][1].status = 200)
      => res[r][1].json.text # coreAssessment[r] \o <<Separator>>

\* C4 amended: a 200 response is sent only after both calls returned a
\* success status; when Stage 2 returns a non-success status after Stage 1
\* succeeded the caller gets HTTP 500 with an error body and no text; when
\* Stage 2 succeeds without text the 200 response is the CoreAssessment and
\* the separator with nothing after it.
C4_NoPartialOnFailure ==
  \A r \in Reqs :
    IsReport(r) =>
      /\ (Len(res[r]) >= 1 /\ res[r][1].status = 200)
           => /\ Len(replies[r]) = 2
              /\ replies[r][1].ok /\ replies[r][2].ok
              /\ Len(outbound[r]) = 2
      /\ (Len(replies[r]) = 2 /\ ~replies[r][2].ok)
           => /\ Ended(r)
              /\ Answered(r, 500, "error")
              /\ ~Embeds(res[r][1].json.error, coreAssessment[r])
      /\ (Len(replies[r]) = 2 /\ LacksText(replies[r][2]))
           => /\ Answered(r, 200, "text")
              /\ res[r][1].json.text = coreAssessment[r] \o <<Separator>>

C4_Witness ==
  \E r \in Reqs :
    /\ IsReport(r) /\ Len(replies[r]) = 2
    /\ HasText(replies[r][1])
    /\ ~replies[r][2].ok
    /\ Ended(r)

\* C5 as stated: on the report path a success reply without text yields
\* the empty string at either stage, and the request ends with HTTP 200.
C5_Original ==
  \A r \in Reqs :
    IsReport(r) =>
      /\ (Len(replies[r]) >= 1 /\ LacksText(replies[r][1]))
           => coreAssessment[r] = << >>
      /\ (Len(replies[r]) = 2 /\ LacksText(replies[r][2]))
           => /\ Answered(r, 200, "text")
              /\ res[r][1].json.text = coreAssessment[r] \o <<Separator>>

\* C5 amended: a Stage 2 success reply without text yields the empty
\* string (nothing follows the separator) and HTTP 200; a Stage 1 success
\* reply without text yields the fixed placeholder assessment, Stage 2 is
\* still called and the request ends with HTTP 200 when Stage 2 succeeds;
\* the chat fallback sentence never appears on the report path.
C5_ReportFallbacks ==
  \A r \in Reqs :
    IsReport(r) =>
      /\ (Len(replies[r]) >= 1 /\ LacksText(replies[r][1]))
           => /\ coreAssessment[r] = CoreFallback
              /\ Len(outbound[r]) = 2
              /\ outbound[r][2].stage = "final"
              /\ (Len(replies[r]) = 2 /\ replies[r][2].ok)
                   => /\ Answered(r, 200, "text")
                      /\ SubSeq(res[r][1].json.text, 1, Len(CoreFallback)) = CoreFallback
      /\ (Len(replies[r]) = 2 /\ LacksText(replies[r][2]))
           => /\ Answered(r, 200, "text")
              /\ res[r][1].json.text = coreAssessment[r] \o <<Separator>>
              /\ ~Embeds(res[r][1].json.text, ChatFallback)

C5_Witness ==
  \E r \in Reqs :
    /\ IsReport(r) /\ Ended(r) /\ Len(replies[r]) = 2
    /\ LacksText(replies[r][1]) /\ replies[r][1].shape = "noCandidates"
    /\ LacksText(replies[r][2]) /\ replies[r][2].shape = "text"

\* C6: a chat request whose single upstream call returns a success status
\* without text is answered with HTTP 200 and the fixed fallback sentence,
\* never the empty string, after exactly one outbound call.
C6_ChatFallback ==
  \A r \in Reqs :
    (IsChat(r) /\ Len(replies[r]) >= 1 /\ LacksText(replies[r][1]))
      => /\ Ended(r)
         /\ Answered(r, 200, "text")
         /\ res[r][1].json.text = << "Sorry, I couldn't process that query." >>
         /\ res[r][1].json.text # << >>
         /\ Len(outbound[r]) = 1
         /\ outbound[r][1].stage = "chat"
         /\ Len(replies[r]) = 1

C6_Witness ==
  \E r \in Reqs :
    /\ IsChat(r) /\ Ended(r) /\ Len(replies[r]) = 1
    /\ replies[r][1].ok /\ replies[r][1].shape = "noParts"
    /\ Len(req[r].body.chatHistory) = 3

\* C7: a non-success status of an outbound call ends the request with HTTP
\* 500 and a message that includes the status code and the raw response
\* body; the failed call is the last one (no retry); a report request issues
\* at most two calls and a chat request at most one.
C7_UpstreamErrorSurfaced ==
  \A r \in Reqs :
    /\ IsReport(r) => Len(outbound[r]) <= 2
    /\ IsChat(r) => Len(outbound[r]) <= 1
    /\ \A k \in 1 .. Len(replies[r]) :
         ~replies[r][k].ok
           => /\ Ended(r)
              /\ Answered(r, 500, "error")
              /\ Contains(res[r][1].json.error, ToString(replies[r][k].status))
              /\ Contains(res[r][1].json.error, replies[r][k].errorText)
              /\ k = Len(replies[r])
              /\ Len(outbound[r]) = k

C7_Witness ==
  \E r \in Reqs :
    /\ IsReport(r) /\ Ended(r) /\ Len(replies[r]) = 2
    /\ ~replies[r][2].ok /\ replies[r][2].status = 503
    /\ Len(outbound[r]) = 2

\* C8: the part list of the Stage 1 call has exactly N image parts and N
\* marker parts for N frames; the i-th image part carries frame i's image,
\* the i-th marker carries i, frame i's heading (to one decimal) and frame
\* i's zone, in frame order, and the Stage 1 instruction text comes last.
C8_Stage1Parts ==
  \A r \in Reqs :
    (IsReport(r) /\ Len(outbound[r]) >= 1)
      => LET p == SentParts(r, 1)
             fs == FramesOf(r)
             N == Len(fs)
             imgs == SelectSeq(p, LAMBDA x : "inlineData" \in DOMAIN x)
             txts == SelectSeq(p, LAMBDA x : "text" \in DOMAIN x)
         IN /\ Len(p) = 2 * N + 1
            /\ Len(imgs) = N
            /\ Len(txts) = N + 1
            /\ \A i \in 1 .. N :
                 /\ imgs[i].inlineData.data = fs[i].image
                 /\ imgs[i].inlineData.mimeType = "image/jpeg"
                 /\ txts[i].text[2] = ToString(i)
                 /\ txts[i].text[4] = ToFixed1(fs[i].heading, 4)
                 /\ txts[i].text[6] = fs[i].zone
            /\ p[Len(p)] = txts[N + 1]
            /\ p[Len(p)].text[1]
                 = "CRITICAL INSTRUCTION: You are a Vastu Analyst AI. Analyze the provided "
            /\ outbound[r][1].stage = "core"

C8_Witness ==
  \E r \in Reqs :
    /\ IsReport(r) /\ Len(outbound[r]) >= 1
    /\ Len(FramesOf(r)) = 3
    /\ FramesOf(r)[1].image # FramesOf(r)[2].image
    /\ FramesOf(r)[2].heading # FramesOf(r)[3].heading
    /\ FramesOf(r)[1].zone # FramesOf(r)[3].zone
    /\ Len(SentParts(r, 1)) = 7

\* C9: the part list of the Stage 2 call is the original image-and-marker
\* part list, without Stage 1's instruction text, followed by exactly one
\* new instruction text part that embeds the CoreAssessment returned by
\* Stage 1 verbatim.
C9_Stage2Parts ==
  \A r \in Reqs :
    (IsReport(r) /\ Len(outbound[r]) = 2)
      => LET p1 == SentParts(r, 1)
             p2 == SentParts(r, 2)
             N == Len(FramesOf(r))
             core == IF HasText(replies[r][1]) THEN replies[r][1].text
                     ELSE << "**Core Vastu Assessment (Defects Found)**\n- Assessment failed to generate. Please rescan." >>
         IN /\ Len(p2) = 2 * N + 1
            /\ SubSeq(p2, 1, 2 * N) = SubSeq(p1, 1, 2 * N)
            /\ ~Contains(p2, p1[Len(p1)])
            /\ DOMAIN p2[2 * N + 1] = {"text"}
            /\ Embeds(p2[2 * N + 1].text, core)
            /\ coreAssessment[r] = core
            /\ outbound[r][2].stage = "final"

C9_Witness ==
  \E r \in Reqs :
    /\ IsReport(r) /\ Len(outbound[r]) = 2
    /\ Len(FramesOf(r)) = 2
    /\ HasText(replies[r][1]) /\ Len(replies[r][1].text) = 2
    /\ pc[r] = "await2"

\* C10: the observed-zones text of the Stage 2 prompt lists every distinct
\* zone label of the frames exactly once, in the order of first occurrence,
\* joined by ", " (North, South, North gives "North, South").
C10_ZonesObserved ==
  \A r \in Reqs :
    (IsReport(r) /\ Len(outbound[r]) = 2)
      => LET q == SentParts(r, 2)[Len(SentParts(r, 2))].text
             fs == FramesOf(r)
             First(z) == CHOOSE i \in 1 .. Len(fs) :
                           fs[i].zone = z /\ \A j \in 1 .. i - 1 : fs[j].zone # z
             d == Cardinality({fs[i].zone : i \in 1 .. Len(fs)})
             k == CHOOSE k \in 1 .. Len(q) : q[k] = " degrees. Zones Covered: "
             zt == SubSeq(q, k + 1, k + (IF d = 0 THEN 0 ELSE 2 * d - 1))
         IN /\ q[k + Len(zt) + 1] = "."
            /\ \A i \in 1 .. Len(fs) :
                 Cardinality({j \in 1 .. Len(zt) : zt[j] = fs[i].zone}) = 1
            /\ \A j \in 1 .. d : \E i \in 1 .. Len(fs) : zt[2 * j - 1] = fs[i].zone
            /\ \A j \in 1 .. d - 1 : zt[2 * j] = ", "
            /\ \A i, j \in 1 .. d :
                 i < j => First(zt[2 * i - 1]) < First(zt[2 * j - 1])
            /\ (Len(fs) = 3 /\ fs[1].zone = "North" /\ fs[2].zone = "South"
                  /\ fs[3].zone = "North")
                 => zt = << "North", ", ", "South" >>

C10_Witness ==
  \E r \in Reqs :
    /\ IsReport(r) /\ Len(outbound[r]) = 2
    /\ Len(FramesOf(r)) = 3
    /\ FramesOf(r)[1].zone = "North"
    /\ FramesOf(r)[2].zone = "South"
    /\ FramesOf(r)[3].zone = "North"

\* the CoreAssessment that request r's own Stage 1 reply yields
OwnCore(r) ==
  IF HasText(replies[r][1]) THEN replies[r][1].text
  ELSE << "**Core Vastu Assessment (Defects Found)**\n- Assessment failed to generate. Please rescan." >>

\* C11: under any interleaving of the requests, the part lists a report
\* request sends are built from its own frames only, the CoreAssessment in
\* its Stage 2 prompt and at the head of its response is the text its own
\* Stage 1 call returned, and its Stage 2 prompt carries its own context.
C11_NoSharedState ==
  \A r \in Reqs :
    IsReport(r) =>
      LET own == BuildParts(FramesOf(r), 0)
      IN /\ \A k \in 1 .. Len(outbound[r]) :
              /\ Len(SentParts(r, k)) = Len(own) + 1
              /\ SubSeq(SentParts(r, k), 1, Len(own)) = own
              /\ Contains(SentParts(r, k)[Len(own) + 1].text,
                          req[r].scanData.context.holisticIssues)
         /\ Len(outbound[r]) = 2
              => /\ Len(replies[r]) >= 1
                 /\ Embeds(SentParts(r, 2)[Len(own) + 1].text, OwnCore(r))
         /\ (Len(res[r]) >= 1 /\ res[r][1].status = 200)
              => SubSeq(res[r][1].json.text, 1, Len(OwnCore(r)) + 1)
                   = OwnCore(r) \o <<Separator>>

C11_Witness ==
  \E r, q \in Reqs :
    /\ r # q
    /\ IsReport(r) /\ IsReport(q)
    /\ FramesOf(r) # FramesOf(q)
    /\ Len(replies[r]) = 2 /\ Len(res[r]) = 1 /\ res[r][1].status = 200
    /\ pc[q] = "await2"
    /\ HasText(replies[r][1]) /\ HasText(replies[q][1])
    /\ replies[r][1].text # replies[q][1].text

NextLive ==
  \E r \in Single :
    \/ ReportRequest(r, LiveFrames)
    \/ Stage1Reply(r)
    \/ Stage2Reply(r)
    \/ ChatRequest(r)
    \/ ChatReply(r)
    \/ TransportFailure(r)

\* the outstanding fetch of a request settles: node-fetch resolves or
\* rejects; the handlers set no timeout of their own
FairSpec ==
  /\ Init
  /\ [][NextLive]_vars
  /\ \A r \in Single :
       WF_vars(Stage1Reply(r) \/ Stage2Reply(r) \/ ChatReply(r) \/ TransportFailure(r))

Received(r) == IsReport(r) \/ IsChat(r)
Awaiting(r) == pc[r] \in {"await1", "await2", "awaitChat"}

\* what C12 says of one state: never a second response, a response of one
\* of the two shapes, a request that is not waiting for a fetch is answered,
\* and an error of prompt construction or of the generation call is the 500
C12_OneResponseShape ==
  \A r \in Reqs :
    /\ Len(res[r]) <= 1
    /\ Received(r) => (IF Awaiting(r) THEN res[r] = << >>
                       ELSE Ended(r) /\ Len(res[r]) = 1)
    /\ ~Received(r) => res[r] = << >>
    /\ Len(res[r]) = 1 => \/ Answered(r, 200, "text")
                          \/ Answered(r, 500, "error")
    /\ (IsReport(r) /\ (~req[r].scanData.hasScanData \/ HeadingThrows(FramesOf(r))))
         => /\ Answered(r, 500, "error")
            /\ outbound[r] = << >>
    /\ (Len(replies[r]) >= 1 /\ ~replies[r][Len(replies[r])].ok)
         => Answered(r, 500, "error")
    /\ (Ended(r) /\ Len(replies[r]) < Len(outbound[r]))
         => Answered(r, 500, "error")

\* C12: every request ends with exactly one response, HTTP 200 with a text
\* body or HTTP 500 with an error body; an error raised while the prompt is
\* built or by the generation call becomes the 500 response, and no request
\* stays unanswered or is answered twice.
C12_ExactlyOneResponse ==
  /\ []C12_OneResponseShape
  /\ \A r \in Single : Received(r) ~> (Ended(r) /\ Len(res[r]) = 1)

C12_Witness ==
  \E r \in Reqs :
    /\ IsReport(r) /\ Ended(r)
    /\ GEMINI_API_KEY # ""
    /\ req[r].scanData.hasScanData
    /\ Len(FramesOf(r)) = 1
    /\ FramesOf(r)[1].heading \in NonNumericHeadings
    /\ Len(res[r]) = 1
    /\ res[r][1].status = 500

====
